---------------------------- MODULE Spec2Model ----------------------------
(***************************************************************************)
(* Model of build_resume_data.py: the sheet-to-record transformers, the    *)
(* span formatter and the payload builder.                                 *)
(*                                                                         *)
(* A Python string is a sequence of one-character strings, so that strip,  *)
(* lower, substring tests, float parsing and number formatting are         *)
(* computed character by character.  A raw cell is a record tagged with    *)
(* the Python type pandas hands to the code: the missing marker (NaN), a   *)
(* str, an int, a float (n/d with d a power of ten) or a bool.             *)
(***************************************************************************)
EXTENDS Integers, Sequences, FiniteSets, TLC

(***************************************************************************)
(* Characters and strings                                                  *)
(***************************************************************************)
UpperSeq == <<"A","B","C","D","E","F","G","H","I","J","K","L","M",
              "N","O","P","Q","R","S","T","U","V","W","X","Y","Z">>
LowerSeq == <<"a","b","c","d","e","f","g","h","i","j","k","l","m",
              "n","o","p","q","r","s","t","u","v","w","x","y","z">>
DigitSeq == <<"0","1","2","3","4","5","6","7","8","9">>
Whitespace == {" ", "\t", "\n"}

\* str.lower() on one character
LowerCh(c) ==
  IF \E i \in 1..26 : UpperSeq[i] = c
  THEN LowerSeq[CHOOSE i \in 1..26 : UpperSeq[i] = c]
  ELSE c

\* str.lower()
Lower(s) == [i \in 1..Len(s) |-> LowerCh(s[i])]

\* str.strip(): remove leading and trailing whitespace
Strip(s) ==
  LET keep == {i \in 1..Len(s) : s[i] \notin Whitespace}
  IN IF keep = {} THEN <<>>
     ELSE LET lo == CHOOSE i \in keep : \A j \in keep : i <= j
              hi == CHOOSE i \in keep : \A j \in keep : i >= j
          IN SubSeq(s, lo, hi)

\* the Python test  sub in s
Contains(s, sub) ==
  \E i \in 0..(Len(s) - Len(sub)) : SubSeq(s, i + 1, i + Len(sub)) = sub

IsDigit(c) == \E i \in 1..10 : DigitSeq[i] = c
DigitVal(c) == (CHOOSE i \in 1..10 : DigitSeq[i] = c) - 1

RECURSIVE DigitsVal(_)
\* value of a string of decimal digits (0 for the empty string)
DigitsVal(s) ==
  IF s = <<>> THEN 0
  ELSE 10 * DigitsVal(SubSeq(s, 1, Len(s) - 1)) + DigitVal(s[Len(s)])

RECURSIVE Pow10(_)
Pow10(k) == IF k = 0 THEN 1 ELSE 10 * Pow10(k - 1)

RECURSIVE IntStr(_)
\* str(n) for a non-negative int
IntStr(n) ==
  IF n < 10 THEN <<DigitSeq[n + 1]>>
  ELSE IntStr(n \div 10) \o <<DigitSeq[(n % 10) + 1]>>

RECURSIVE FracDigits(_, _)
\* the digits of f/d after the decimal point, d a power of ten, f < d
FracDigits(f, d) ==
  IF d = 1 THEN <<>>
  ELSE <<DigitSeq[(f \div (d \div 10)) + 1]>> \o FracDigits(f % (d \div 10), d \div 10)

RECURSIVE DropTrailingZeros(_)
DropTrailingZeros(s) ==
  IF s # <<>> /\ s[Len(s)] = "0" THEN DropTrailingZeros(SubSeq(s, 1, Len(s) - 1))
  ELSE s

\* str(x) for a finite non-negative float x = n/d: always shows a fraction
FloatStr(n, d) ==
  LET frac == DropTrailingZeros(FracDigits(n % d, d))
  IN IntStr(n \div d) \o <<".">> \o (IF frac = <<>> THEN <<"0">> ELSE frac)

(***************************************************************************)
(* Raw cells and Python numbers                                            *)
(***************************************************************************)
NaN == [kind |-> "nan"]
StrCell(s) == [kind |-> "str", s |-> s]
IntCell(n) == [kind |-> "int", n |-> n]
FloatCell(n, d) == [kind |-> "float", n |-> n, d |-> d]
BoolCell(b) == [kind |-> "bool", b |-> b]
\* the Python None that row.get returns for an absent column label
NoneCell == [kind |-> "none"]

\* Python values produced by float() and _coerce_year
None == [cls |-> "none", n |-> 0, d |-> 1]
NanNum == [cls |-> "nan", n |-> 0, d |-> 1]
InfNum == [cls |-> "inf", n |-> 0, d |-> 1]
FloatNum(n, d) == [cls |-> "float", n |-> n, d |-> d]
IntNum(n) == [cls |-> "int", n |-> n, d |-> 1]

S_nan == <<"n","a","n">>
S_inf == <<"i","n","f">>
S_infinity == <<"i","n","f","i","n","i","t","y">>

\* float(text): [ok |-> FALSE] stands for the ValueError
ParseFloat(text) ==
  LET t == Strip(text)
      dots == {i \in 1..Len(t) : t[i] = "."}
  IN IF Lower(t) = S_nan THEN [ok |-> TRUE, v |-> NanNum]
     ELSE IF Lower(t) \in {S_inf, S_infinity} THEN [ok |-> TRUE, v |-> InfNum]
     ELSE IF /\ \A i \in 1..Len(t) : IsDigit(t[i]) \/ t[i] = "."
             /\ Cardinality(dots) <= 1
             /\ \E i \in 1..Len(t) : IsDigit(t[i])
          THEN LET p == IF dots = {} THEN Len(t) + 1 ELSE CHOOSE i \in dots : TRUE
                   ip == SubSeq(t, 1, p - 1)
                   fp == SubSeq(t, p + 1, Len(t))
               IN [ok |-> TRUE, v |-> FloatNum(DigitsVal(ip \o fp), Pow10(Len(fp)))]
          ELSE [ok |-> FALSE, v |-> None]

\* float(val) for a raw cell
PyFloat(val) ==
  CASE val.kind = "nan"   -> [ok |-> TRUE, v |-> NanNum]
    [] val.kind = "int"   -> [ok |-> TRUE, v |-> FloatNum(val.n, 1)]
    [] val.kind = "float" -> [ok |-> TRUE, v |-> FloatNum(val.n, val.d)]
    [] val.kind = "bool"  -> [ok |-> TRUE, v |-> FloatNum(IF val.b THEN 1 ELSE 0, 1)]
    [] val.kind = "str"   -> ParseFloat(val.s)
    [] OTHER              -> [ok |-> FALSE, v |-> None]

\* math.isfinite
IsFinite(num) == num.cls \in {"int", "float"}

\* the Python comparison  a > b  on numbers
NumGreater(a, b) ==
  CASE a.cls = "nan" \/ b.cls = "nan" -> FALSE
    [] a.cls = "inf" -> b.cls # "inf"
    [] b.cls = "inf" -> FALSE
    [] OTHER -> a.n * b.d > b.n * a.d

\* str(num)
NumStr(num) ==
  CASE num.cls = "int"   -> IntStr(num.n)
    [] num.cls = "float" -> FloatStr(num.n, num.d)
    [] num.cls = "inf"   -> S_inf
    [] num.cls = "nan"   -> S_nan
    [] OTHER             -> <<"N","o","n","e">>

S_True == <<"T","r","u","e">>
S_False == <<"F","a","l","s","e">>

\* str(val) for a raw cell
PyStr(val) ==
  CASE val.kind = "str"   -> val.s
    [] val.kind = "int"   -> IntStr(val.n)
    [] val.kind = "float" -> FloatStr(val.n, val.d)
    [] val.kind = "bool"  -> IF val.b THEN S_True ELSE S_False
    [] val.kind = "none"  -> <<"N","o","n","e">>
    [] OTHER              -> S_nan

(***************************************************************************)
(* _clean_value, _coerce_year, _span                                       *)
(***************************************************************************)
_clean_value(val) ==
  IF val.kind \in {"nan", "none"} THEN <<>> ELSE Strip(PyStr(val))

_coerce_year(val) ==
  IF val.kind = "str" /\ Strip(val.s) = <<>> THEN None
  ELSE LET r == PyFloat(val)
       IN IF ~r.ok THEN None
          ELSE IF r.v.cls = "float" /\ r.v.n % r.v.d = 0
               THEN IntNum(r.v.n \div r.v.d)
               ELSE r.v

\* the separator " \u2013 " of the f-strings; the one-element "u2013" stands for
\* the character U+2013 (EN DASH), which is not an ASCII character
EnDash == <<" ", "u2013", " ">>
S_current == <<"c","u","r","r","e","n","t">>

\* _span comparing the end with "current" without lowercasing it
_span_case_sensitive(start, end) ==
  LET s0 == _clean_value(start)
      e0 == _clean_value(end)
      s_num0 == _coerce_year(start)
      e_num0 == _coerce_year(end)
      swap == s_num0 # None /\ e_num0 # None /\ NumGreater(s_num0, e_num0)
      s == IF swap THEN NumStr(e_num0) ELSE s0
      e == IF swap THEN NumStr(s_num0) ELSE e0
  IN IF s = <<>> /\ e = <<>> THEN <<>>
     ELSE IF e = S_current
          THEN (IF s # <<>> THEN s \o EnDash \o S_current ELSE S_current)
     ELSE IF s # <<>> /\ e # <<>> THEN s \o EnDash \o e
     ELSE IF s # <<>> THEN s ELSE e

\* _span ending in  return e  instead of  return s or e
_span_return_end(start, end) ==
  LET s0 == _clean_value(start)
      e0 == _clean_value(end)
      s_num0 == _coerce_year(start)
      e_num0 == _coerce_year(end)
      swap == s_num0 # None /\ e_num0 # None /\ NumGreater(s_num0, e_num0)
      s == IF swap THEN NumStr(e_num0) ELSE s0
      e == IF swap THEN NumStr(s_num0) ELSE e0
  IN IF s = <<>> /\ e = <<>> THEN <<>>
     ELSE IF Lower(e) = S_current
          THEN (IF s # <<>> THEN s \o EnDash \o S_current ELSE S_current)
     ELSE IF s # <<>> /\ e # <<>> THEN s \o EnDash \o e
     ELSE e

_span(start, end) ==
  LET s0 == _clean_value(start)
      e0 == _clean_value(end)
      s_num0 == _coerce_year(start)
      e_num0 == _coerce_year(end)
      swap == s_num0 # None /\ e_num0 # None /\ NumGreater(s_num0, e_num0)
      s == IF swap THEN NumStr(e_num0) ELSE s0
      e == IF swap THEN NumStr(s_num0) ELSE e0
  IN IF s = <<>> /\ e = <<>> THEN <<>>
     ELSE IF Lower(e) = S_current
          THEN (IF s # <<>> THEN s \o EnDash \o S_current ELSE S_current)
     ELSE IF s # <<>> /\ e # <<>> THEN s \o EnDash \o e
     ELSE IF s # <<>> THEN s ELSE e

(***************************************************************************)
(* Sheets.  A DataFrame is [columns |-> labels, rows |-> rows], a row is   *)
(* the sequence of its cells in column order; row.iloc[i] is row[i + 1].   *)
(* A dict is the sequence of its items in insertion order.                 *)
(***************************************************************************)
DictKeys(d) == {d[i].key : i \in 1..Len(d)}
DictGet(d, k) == d[CHOOSE i \in 1..Len(d) : d[i].key = k].val

\* d[k] = v keeping the first value stored under k
DictSetKeepFirst(d, k, v) ==
  IF k \in DictKeys(d) THEN d ELSE Append(d, [key |-> k, val |-> v])

\* d[k] = v: overwrite in place, or append a new item
DictSet(d, k, v) ==
  IF k \in DictKeys(d)
  THEN [i \in 1..Len(d) |-> IF d[i].key = k THEN [key |-> k, val |-> v] ELSE d[i]]
  ELSE Append(d, [key |-> k, val |-> v])

S_text_header == <<"i","d"," ","u","s","e","d"," ","f","o","r"," ",
                   "f","i","n","d","i","n","g"," ","t","e","x","t"," ",
                   "b","l","o","c","k">>

RECURSIVE TextBlocksLoop(_, _)
\* the loop of parse_text_blocks over the remaining rows
TextBlocksLoop(rows, acc) ==
  IF rows = <<>> THEN acc
  ELSE LET row == Head(rows)
           key == _clean_value(row[1])
           val == _clean_value(row[2])
       IN TextBlocksLoop(Tail(rows),
            IF key # <<>> /\ Lower(key) # S_text_header
            THEN DictSet(acc, key, val) ELSE acc)

parse_text_blocks(d) == TextBlocksLoop(d.rows, <<>>)

S_skill == <<"s","k","i","l","l">>
S_name_of_language == <<"n","a","m","e"," ","o","f"," ",
                        "l","a","n","g","u","a","g","e">>

\* one iteration of the loop of parse_skills / parse_languages
RatedRow(acc, row) ==
  LET name == _clean_value(row[1])
      level == PyFloat(row[2])
  IN IF name = <<>> \/ Lower(name) \in {S_skill, S_name_of_language} THEN acc
     ELSE IF ~level.ok THEN acc
     ELSE Append(acc, [name |-> name, level |-> level.v])

RECURSIVE RatedLoop(_, _)
RatedLoop(rows, acc) ==
  IF rows = <<>> THEN acc ELSE RatedLoop(Tail(rows), RatedRow(acc, Head(rows)))

parse_skills(d) == RatedLoop(d.rows, <<>>)
parse_languages(d) == RatedLoop(d.rows, <<>>)

S_contact_header == <<"i","d"," ","o","f"," ","c","o","n","t","a","c","t"," ",
                      "s","e","c","t","i","o","n">>
S_icon == <<"i","c","o","n">>
S_contact == <<"c","o","n","t","a","c","t">>

\* the loop body of parse_contact skipping a row on icon == "icon" alone
ContactRowIconOnly(acc, row) ==
  LET id_val == _clean_value(row[1])
      icon == _clean_value(row[2])
      value == _clean_value(row[3])
  IN IF id_val = <<>> \/ Lower(id_val) = S_contact_header THEN acc
     ELSE IF Lower(icon) = S_icon THEN acc
     ELSE Append(acc, [id |-> id_val, icon |-> icon, value |-> value])

\* one iteration of the loop of parse_contact
ContactRow(acc, row) ==
  LET id_val == _clean_value(row[1])
      icon == _clean_value(row[2])
      value == _clean_value(row[3])
  IN IF id_val = <<>> \/ Lower(id_val) = S_contact_header THEN acc
     ELSE IF Lower(icon) = S_icon /\ Lower(value) = S_contact THEN acc
     ELSE Append(acc, [id |-> id_val, icon |-> icon, value |-> value])

RECURSIVE ContactLoop(_, _)
ContactLoop(rows, acc) ==
  IF rows = <<>> THEN acc ELSE ContactLoop(Tail(rows), ContactRow(acc, Head(rows)))

parse_contact(d) == ContactLoop(d.rows, <<>>)

(***************************************************************************)
(* parse_entries                                                           *)
(***************************************************************************)
L_title ==
  <<"M","a","i","n"," ","t","i","t","l","e"," ","o","f"," ","t","h","e",
      " ","e","n","t","r","y">>
L_location ==
  <<"L","o","c","a","t","i","o","n"," ","t","h","e"," ","e","n","t","r",
      "y"," ","o","c","c","u","r","e","d">>
L_org ==
  <<"P","r","i","m","a","r","y"," ","i","n","s","t","i","t","u","t","i",
      "o","n"," ","a","f","f","i","l","i","a","t","i","o","n"," ","f",
      "o","r"," ","e","n","t","r","y">>
L_start ==
  <<"S","t","a","r","t"," ","d","a","t","e"," ","o","f"," ","e","n","t",
      "r","y"," ","(","y","e","a","r",")">>
L_end ==
  <<"E","n","d"," ","y","e","a","r"," ","o","f"," ","e","n","t","r","y",
      "."," ","S","e","t"," ","t","o"," ","\"","c","u","r","r","e","n",
      "t","\""," ","i","f"," ","e","n","t","r","y"," ","i","s"," ","s",
      "t","i","l","l"," ","o","n","g","o","i","n","g",".">>

S_description == <<"d","e","s","c","r","i","p","t","i","o","n">>
S_section == <<"s","e","c","t","i","o","n">>
S_filter == <<"f","i","l","t","e","r">>
S_resume == <<"r","e","s","u","m","e">>
S_in_resume == <<"i","n","_","r","e","s","u","m","e">>
S_true == <<"t","r","u","e">>
S_false == <<"f","a","l","s","e">>

InSeq(x, q) == \E i \in 1..Len(q) : q[i] = x

\* row.get(label): the cell under the label, None when no column has it
RowGet(columns, row, label) ==
  IF InSeq(label, columns)
  THEN row[CHOOSE i \in 1..Len(columns) : columns[i] = label]
  ELSE NoneCell

\* [c for c in df.columns if "description" in c.lower()]
LabelDescCols(columns) ==
  SelectSeq(columns, LAMBDA c : Contains(Lower(c), S_description))

RECURSIVE AppendPositional(_, _, _)
\* for idx, col in enumerate(df.columns): append the columns of index >= 6
\* that are not in desc_cols yet; idx counts from 0
AppendPositional(columns, idx, acc) ==
  IF idx >= Len(columns) THEN acc
  ELSE AppendPositional(columns, idx + 1,
         IF idx >= 6 /\ ~InSeq(columns[idx + 1], acc)
         THEN Append(acc, columns[idx + 1]) ELSE acc)

\* desc_cols as parse_entries builds it
DescCols(columns) == AppendPositional(columns, 0, LabelDescCols(columns))

RECURSIVE BulletsLoop(_, _, _, _)
\* the loop  for col in desc_cols  of one row
BulletsLoop(columns, row, cols, acc) ==
  IF cols = <<>> THEN acc
  ELSE LET col == Head(cols)
           col_lower == Lower(col)
           val == _clean_value(RowGet(columns, row, col))
       IN BulletsLoop(columns, row, Tail(cols),
            IF \E key \in {S_filter, S_resume, S_in_resume} : Contains(col_lower, key)
            THEN acc
            ELSE IF val = <<>> THEN acc
            ELSE IF Lower(val) \in {S_true, S_false} THEN acc
            ELSE Append(acc, val))

\* one iteration of the loop of parse_entries over the rows
EntryRow(columns, header_val, desc_cols, acc, row) ==
  LET section == _clean_value(row[1])
  IN IF section = <<>> \/ Lower(section) \in {<<>>, header_val, S_section} THEN acc
     ELSE Append(acc,
            [section  |-> section,
             title    |-> _clean_value(RowGet(columns, row, L_title)),
             location |-> _clean_value(RowGet(columns, row, L_location)),
             org      |-> _clean_value(RowGet(columns, row, L_org)),
             span     |-> _span(RowGet(columns, row, L_start),
                                RowGet(columns, row, L_end)),
             bullets  |-> BulletsLoop(columns, row, desc_cols, <<>>)])

RECURSIVE EntriesLoop(_, _, _, _, _)
EntriesLoop(columns, header_val, desc_cols, rows, acc) ==
  IF rows = <<>> THEN acc
  ELSE EntriesLoop(columns, header_val, desc_cols, Tail(rows),
                   EntryRow(columns, header_val, desc_cols, acc, Head(rows)))

\* df.empty holds when the sheet has no row or no column
parse_entries(d) ==
  IF d.rows = <<>> \/ d.columns = <<>> THEN <<>>
  ELSE EntriesLoop(d.columns, Lower(_clean_value(d.rows[1][1])),
                   DescCols(d.columns), d.rows, <<>>)

(***************************************************************************)
(* State                                                                   *)
(***************************************************************************)
VARIABLES
  pc,            \* position of the run
  start, end,    \* the arguments of _span
  span,          \* the value _span returned
  df,            \* the sheet handed to a parser: [columns, rows]
  blocks,        \* result of parse_text_blocks: a dict
  entries,       \* result of parse_entries
  skills,        \* result of parse_skills
  langs,         \* result of parse_languages
  contacts,      \* result of parse_contact
  xlsx_exists,   \* XLSX_PATH.exists()
  xls,           \* the workbook: sheet name -> sheet
  dir_created,   \* OUTPUT_PATH.parent exists
  invoked,       \* the parsers called so far, in call order
  payload,       \* the value build_payload returned
  raised,        \* the exception that ended the run
  output_file    \* the content of OUTPUT_PATH

vars == <<pc, start, end, span, df, blocks, entries, skills, langs, contacts,
          xlsx_exists, xls, dir_created, invoked, payload, raised, output_file>>

spanVars == <<start, end, span>>
parserVars == <<df, blocks, entries, skills, langs, contacts>>
mainVars == <<xlsx_exists, xls, dir_created, invoked, payload, raised, output_file>>

NoDf == [columns |-> <<>>, rows |-> <<>>]
NoError == [type |-> "none", message |-> <<>>]
NoPayload == [built |-> FALSE]

SpanIdle == start = NaN /\ end = NaN /\ span = <<>>
ParserIdle ==
  /\ df = NoDf /\ blocks = <<>> /\ entries = <<>> /\ skills = <<>>
  /\ langs = <<>> /\ contacts = <<>>
MainIdle ==
  /\ xlsx_exists = FALSE /\ xls = <<>> /\ dir_created = FALSE
  /\ invoked = <<>> /\ payload = NoPayload /\ raised = NoError
  /\ output_file = NoPayload

(***************************************************************************)
(* _span applied to every pair of raw cells                                *)
(***************************************************************************)
NumYears == 3
Years == {2017 + i : i \in 1..NumYears}

S_NA == <<"N","/","A">>

YearCells ==
  {NaN, StrCell(<<>>), StrCell(<<" ">>), StrCell(S_current),
   StrCell(<<"C","u","r","r","e","n","t">>), StrCell(<<" ">> \o S_current),
   StrCell(S_NA), StrCell(<<"2","0","1","9",".","5">>)}
  \cup {IntCell(y) : y \in Years}
  \cup {StrCell(IntStr(y)) : y \in Years}
  \cup {StrCell(<<" ">> \o IntStr(y) \o <<" ">>) : y \in {2019}}
  \cup {FloatCell(10 * y, 10) : y \in Years}
  \cup {FloatCell(10 * y + 5, 10) : y \in {2018}}

InitSpan ==
  /\ pc = "span"
  /\ start \in YearCells /\ end \in YearCells /\ span = <<>>
  /\ ParserIdle /\ MainIdle

\* one call  _span(start, end)
Span ==
  /\ pc = "span"
  /\ span' = _span(start, end)
  /\ pc' = "done"
  /\ UNCHANGED <<start, end, parserVars, mainVars>>

NextSpan == Span
SpecSpan == InitSpan /\ [][NextSpan]_vars

\* the raw value coerces to a numeric year
IsNumericYear(val) == _coerce_year(val).cls \in {"int", "float"}

\* C2: for start/end values that both coerce to a numeric year, _span(a, b)
\* equals _span(b, a), and when start > end the result is the two original
\* display strings exchanged, "<smaller> - <larger>".
C2_SpanSymmetric ==
  (pc = "done" /\ IsNumericYear(start) /\ IsNumericYear(end)) =>
    /\ span = _span(end, start)
    /\ NumGreater(_coerce_year(start), _coerce_year(end)) =>
         span = _clean_value(end) \o EnDash \o _clean_value(start)

\* C7: when the cleaned end, lowercased, is "current", the span is
\* "<cleaned start> - current" for a non-empty cleaned start and "current"
\* alone otherwise, whatever the start value is (no swap).
C7_CurrentEnd ==
  (pc = "done" /\ Lower(_clean_value(end)) = S_current) =>
    span = IF _clean_value(start) # <<>>
           THEN _clean_value(start) \o EnDash \o S_current
           ELSE S_current

\* a call with a numeric start year and an end "Current" has returned
C7_Witness ==
  /\ pc = "done" /\ IsNumericYear(start)
  /\ _clean_value(end) # S_current /\ Lower(_clean_value(end)) = S_current
  /\ span = _clean_value(start) \o EnDash \o S_current

\* C8: the span is empty only if both cleaned values are empty; when at
\* least one of them is non-empty the span is non-empty.
C8_SpanEmptyOnlyIfBothEmpty ==
  pc = "done" =>
    (span = <<>> <=> (_clean_value(start) = <<>> /\ _clean_value(end) = <<>>))

\* a call with an empty end and a non-empty start has returned a span
C8_Witness ==
  /\ pc = "done" /\ _clean_value(end) = <<>> /\ _clean_value(start) # <<>>
  /\ span = _clean_value(start)

(***************************************************************************)
(* Sheets of the row-by-row parsers                                        *)
(***************************************************************************)
MaxRows == 2

SeqsUpTo(S, n) == UNION {[1..k -> S] : k \in 0..n}

\* the sheets with the given columns and at most n rows drawn from rowSet
SheetsOf(columns, rowSet, n) ==
  {[columns |-> columns, rows |-> r] : r \in SeqsUpTo(rowSet, n)}

S_id == <<"i","d">>
S_text == <<"t","e","x","t">>
S_intro == <<"i","n","t","r","o">>
S_aside == <<"a","s","i","d","e">>

TextKeyCells ==
  {NaN, StrCell(<<>>), StrCell(S_intro), StrCell(<<" ">> \o S_intro),
   StrCell(S_aside),
   StrCell(<<"I","D">> \o SubSeq(S_text_header, 3, Len(S_text_header)))}
TextValCells == {NaN, StrCell(<<"a">>), StrCell(<<" ","b"," ">>)}
TextRows == {<<k, v>> : k \in TextKeyCells, v \in TextValCells}
TextSheets(n) == SheetsOf(<<S_id, S_text>>, TextRows, n)

InitTextBlocks ==
  /\ pc = "text_blocks"
  /\ df \in TextSheets(MaxRows)
  /\ blocks = <<>> /\ entries = <<>> /\ skills = <<>> /\ langs = <<>>
  /\ contacts = <<>>
  /\ SpanIdle /\ MainIdle

\* one call  parse_text_blocks(df)
ParseTextBlocks ==
  /\ pc = "text_blocks"
  /\ blocks' = parse_text_blocks(df)
  /\ pc' = "done"
  /\ UNCHANGED <<df, entries, skills, langs, contacts, spanVars, mainVars>>

NextTextBlocks == ParseTextBlocks
SpecTextBlocks == InitTextBlocks /\ [][NextTextBlocks]_vars

TextKey(i) == _clean_value(df.rows[i][1])
TextQualifies(i) == TextKey(i) # <<>> /\ Lower(TextKey(i)) # S_text_header
TextIdx == {i \in 1..Len(df.rows) : TextQualifies(i)}

\* C10: parse_text_blocks maps each cleaned key that is non-empty and not the
\* header label (case-insensitive) to the cleaned value of the last row
\* carrying that key; other rows add no key; duplicates raise nothing.
C10_LastWriteWins ==
  pc = "done" =>
    /\ DictKeys(blocks) = {TextKey(i) : i \in TextIdx}
    /\ \A a, b \in 1..Len(blocks) : blocks[a].key = blocks[b].key => a = b
    /\ \A a \in 1..Len(blocks) :
         \E i \in TextIdx :
           /\ TextKey(i) = blocks[a].key
           /\ \A j \in TextIdx : TextKey(j) = TextKey(i) => j <= i
           /\ blocks[a].val = _clean_value(df.rows[i][2])

\* two rows carried the same key with different values and the parse returned
C10_Witness ==
  /\ pc = "done"
  /\ \E i, j \in TextIdx :
       /\ i < j /\ TextKey(i) = TextKey(j)
       /\ _clean_value(df.rows[i][2]) # _clean_value(df.rows[j][2])
       /\ DictGet(blocks, TextKey(i)) = _clean_value(df.rows[j][2])

(***************************************************************************)
S_name == <<"n","a","m","e">>
S_level == <<"l","e","v","e","l">>
S_Python == <<"P","y","t","h","o","n">>

RatedNameCells ==
  {NaN, StrCell(S_Python), StrCell(<<" ","R"," ">>),
   StrCell(<<"S">> \o Tail(S_skill)), StrCell(<<"N">> \o Tail(S_name_of_language))}
RatedLevelCells ==
  {NaN, StrCell(<<>>), StrCell(<<"n","/","a">>), StrCell(<<"4",".","5">>),
   IntCell(3), FloatCell(45, 10), StrCell(S_inf)}
RatedRows == {<<n, l>> : n \in RatedNameCells, l \in RatedLevelCells}
RatedSheets(n) == SheetsOf(<<S_name, S_level>>, RatedRows, n)

InitRated ==
  /\ pc \in {"skills", "languages"}
  /\ df \in RatedSheets(MaxRows)
  /\ blocks = <<>> /\ entries = <<>> /\ skills = <<>> /\ langs = <<>>
  /\ contacts = <<>>
  /\ SpanIdle /\ MainIdle

\* one call  parse_skills(df)
ParseSkills ==
  /\ pc = "skills"
  /\ skills' = parse_skills(df)
  /\ pc' = "done"
  /\ UNCHANGED <<df, blocks, entries, langs, contacts, spanVars, mainVars>>

\* one call  parse_languages(df)
ParseLanguages ==
  /\ pc = "languages"
  /\ langs' = parse_languages(df)
  /\ pc' = "done"
  /\ UNCHANGED <<df, blocks, entries, skills, contacts, spanVars, mainVars>>

NextRated == ParseSkills \/ ParseLanguages
SpecRated == InitRated /\ [][NextRated]_vars

RatedNameOk(row) ==
  /\ _clean_value(row[1]) # <<>>
  /\ Lower(_clean_value(row[1])) \notin {S_skill, S_name_of_language}
LevelFinite(row) == PyFloat(row[2]).ok /\ IsFinite(PyFloat(row[2]).v)

\* C1: every record emitted by parse_skills or parse_languages has a finite
\* level; a row whose level cell is the missing marker or does not parse as a
\* number contributes no record.
C1_LevelAlwaysFinite ==
  pc = "done" =>
    /\ \A i \in 1..Len(skills) : IsFinite(skills[i].level)
    /\ \A i \in 1..Len(langs) : IsFinite(langs[i].level)
    /\ Len(skills) + Len(langs) =
         Cardinality({i \in 1..Len(df.rows) :
                        RatedNameOk(df.rows[i]) /\ LevelFinite(df.rows[i])})

(***************************************************************************)
S_value == <<"v","a","l","u","e">>
S_email == <<"e","m","a","i","l">>
S_Icon == <<"I","c","o","n">>
S_Contact == <<"C","o","n","t","a","c","t">>

ContactIdCells ==
  {NaN, StrCell(S_email), StrCell(<<"I","D">> \o SubSeq(S_contact_header, 3, Len(S_contact_header)))}
ContactIconCells == {StrCell(S_Icon), StrCell(<<"f","a">>)}
ContactValueCells == {StrCell(S_Contact), StrCell(<<"a","@","b",".","c"," ">>)}
ContactRows ==
  {<<i, c, v>> : i \in ContactIdCells, c \in ContactIconCells, v \in ContactValueCells}
ContactSheets(n) == SheetsOf(<<S_id, S_icon, S_value>>, ContactRows, n)

InitContact ==
  /\ pc = "contact_info"
  /\ df \in ContactSheets(MaxRows)
  /\ blocks = <<>> /\ entries = <<>> /\ skills = <<>> /\ langs = <<>>
  /\ contacts = <<>>
  /\ SpanIdle /\ MainIdle

\* one call  parse_contact(df)
ParseContact ==
  /\ pc = "contact_info"
  /\ contacts' = parse_contact(df)
  /\ pc' = "done"
  /\ UNCHANGED <<df, blocks, entries, skills, langs, spanVars, mainVars>>

NextContact == ParseContact
SpecContact == InitContact /\ [][NextContact]_vars

ContactStrayHeader(row) ==
  /\ Lower(_clean_value(row[2])) = S_icon
  /\ Lower(_clean_value(row[3])) = S_contact
ContactKept(row) ==
  /\ _clean_value(row[1]) # <<>>
  /\ Lower(_clean_value(row[1])) # S_contact_header
  /\ ~ContactStrayHeader(row)
ContactIdx == {i \in 1..Len(df.rows) : ContactKept(df.rows[i])}

\* C9: parse_contact emits, in source order, a record for exactly the rows
\* with a non-empty id other than "id of contact section" that are not the
\* stray header row (icon "icon" and value "contact"); a row with icon "Icon"
\* and another value is kept.
C9_ContactRows ==
  pc = "done" =>
    /\ Len(contacts) = Cardinality(ContactIdx)
    /\ \A i \in ContactIdx :
         contacts[Cardinality({j \in ContactIdx : j <= i})] =
           [id |-> _clean_value(df.rows[i][1]),
            icon |-> _clean_value(df.rows[i][2]),
            value |-> _clean_value(df.rows[i][3])]

\* a stray header row was skipped and a later row with icon "Icon" and an
\* ordinary value was emitted
C9_Witness ==
  /\ pc = "done"
  /\ \E i, j \in 1..Len(df.rows) :
       /\ i < j
       /\ _clean_value(df.rows[i][1]) # <<>> /\ ContactStrayHeader(df.rows[i])
       /\ ContactKept(df.rows[j])
       /\ _clean_value(df.rows[j][2]) = S_Icon
       /\ contacts = <<[id |-> _clean_value(df.rows[j][1]), icon |-> S_Icon,
                        value |-> _clean_value(df.rows[j][3])]>>

(***************************************************************************)
(* parse_entries applied to sheets of six fixed columns and extra columns  *)
(***************************************************************************)
MaxEntryRows == 2
MaxExtraCols == 2

S_Section == <<"S","e","c","t","i","o","n">>
S_Acme == <<"A","c","m","e">>
L_description == <<"D","e","s","c","r","i","p","t","i","o","n">>
L_unnamed6 == <<"U","n","n","a","m","e","d",":"," ","6">>
L_unnamed7 == <<"U","n","n","a","m","e","d",":"," ","7">>
FixedCols == <<S_Section, L_title, L_location, L_org, L_start, L_end>>
ExtraLabels == {L_description, L_unnamed6, L_unnamed7, S_in_resume}

\* the sequences of at most n distinct extra labels
ExtraLayouts(n) ==
  {q \in SeqsUpTo(ExtraLabels, n) :
     \A i, j \in 1..Len(q) : q[i] = q[j] => i = j}

\* the text a cell of the k-th extra column holds, one letter per column
BulletText == <<"A", "B", "C", "D">>
ExtraCells(k) ==
  {NaN, StrCell(<<" ", BulletText[k]>>)} \cup (IF k = 1 THEN {StrCell(S_True)} ELSE {})

SectionCells == {NaN, StrCell(S_Acme), StrCell(S_Section)}
DateCells == {<<IntCell(2018), StrCell(S_current)>>, <<FloatCell(20200, 10), IntCell(2018)>>}

EntryRows(n) ==
  {<<sec, StrCell(<<"D","e","v">>), NaN, StrCell(<<"U","n","i">>), dt[1], dt[2]>> \o ex :
     sec \in SectionCells, dt \in DateCells,
     ex \in {q \in [1..n -> UNION {ExtraCells(k) : k \in 1..n}] :
               \A k \in 1..n : q[k] \in ExtraCells(k)}}

EntrySheets(maxRows, maxCols) ==
  UNION {SheetsOf(FixedCols \o lay, EntryRows(Len(lay)), maxRows) :
           lay \in ExtraLayouts(maxCols)}

InitEntries ==
  /\ pc = "entries"
  /\ df \in EntrySheets(MaxEntryRows, MaxExtraCols)
  /\ blocks = <<>> /\ entries = <<>> /\ skills = <<>> /\ langs = <<>>
  /\ contacts = <<>>
  /\ SpanIdle /\ MainIdle

\* one call  parse_entries(df)
ParseEntries ==
  /\ pc = "entries"
  /\ entries' = parse_entries(df)
  /\ pc' = "done"
  /\ UNCHANGED <<df, blocks, skills, langs, contacts, spanVars, mainVars>>

NextEntries == ParseEntries
SpecEntries == InitEntries /\ [][NextEntries]_vars

\* the rows parse_entries emitted an Entry for, and the Entry of such a row
EmittedIdx ==
  {i \in 1..Len(df.rows) :
     LET sec == _clean_value(df.rows[i][1])
     IN sec # <<>> /\ Lower(sec) \notin {Lower(_clean_value(df.rows[1][1])), S_section}}
EntryOf(i) == entries[Cardinality({j \in EmittedIdx : j <= i})]

\* column c (counted from 1) is a description column, by label or by position
IsDescColumn(c) ==
  Contains(Lower(df.columns[c]), S_description) \/ c - 1 >= 6

\* C3: in every emitted Entry the bullets follow the left-to-right column
\* order of the sheet: when description column a is before description
\* column c and both contribute a bullet for the row, a's bullet precedes
\* c's, whether the columns qualified by label or by position.
C3_BulletsInColumnOrder ==
  (pc = "done" /\ Len(entries) = Cardinality(EmittedIdx)) =>
    \A i \in EmittedIdx :
      LET b == EntryOf(i).bullets
          V(c) == _clean_value(df.rows[i][c])
      IN \A a, c \in 1..Len(df.columns) :
           (/\ a < c /\ IsDescColumn(a) /\ IsDescColumn(c)
            /\ InSeq(V(a), b) /\ InSeq(V(c), b))
           => \E p, q \in 1..Len(b) : p < q /\ b[p] = V(a) /\ b[q] = V(c)

\* the rows C4 says qualify: section non-empty and not, case-insensitively,
\* the header label of column 1 or the literal "section"
QualifyingIdx ==
  {i \in 1..Len(df.rows) :
     LET sec == _clean_value(df.rows[i][1])
     IN sec # <<>> /\ Lower(sec) \notin {Lower(df.columns[1]), S_section}}

\* C4: parse_entries emits exactly one Entry, in source row order, for every
\* data row whose section is non-empty and is not the header label or
\* "section", and nothing for any other row; a sheet whose only data row has
\* section "Acme" yields exactly one Entry.
C4_OneEntryPerQualifyingRow ==
  pc = "done" =>
    /\ Len(entries) = Cardinality(QualifyingIdx)
    /\ \A i \in QualifyingIdx :
         entries[Cardinality({j \in QualifyingIdx : j <= i})].section
           = _clean_value(df.rows[i][1])

(***************************************************************************)
(* main and build_payload                                                  *)
(***************************************************************************)
\* the list  required  of build_payload
Required ==
  <<"text_blocks", "entries", "computer_science_skills", "languages", "contact_info">>

SeqRange(q) == {q[i] : i \in 1..Len(q)}

\* [name for name in required if name not in xls.sheet_names], first hit only
MissingFirstOnly(sheet_names) ==
  LET m == SelectSeq(Required, LAMBDA name : name \notin sheet_names)
  IN IF m = <<>> THEN m ELSE <<m[1]>>

\* a check for missing sheets that never finds one
MissingNever(sheet_names) == <<>>

\* [name for name in required if name not in xls.sheet_names]
Missing(sheet_names) == SelectSeq(Required, LAMBDA name : name \notin sheet_names)

RECURSIVE Join(_, _)
\* sep.join(names), as the sequence of its pieces
Join(names, sep) ==
  IF names = <<>> THEN <<>>
  ELSE IF Len(names) = 1 THEN names
  ELSE <<names[1], sep>> \o Join(Tail(names), sep)

\* the sheets a workbook of the run may hold under each name
SampleSheets(name) ==
  CASE name = "text_blocks" ->
         {[columns |-> <<S_id, S_text>>, rows |-> <<>>],
          [columns |-> <<S_id, S_text>>,
           rows |-> <<<<StrCell(S_intro), StrCell(<<"a">>)>>,
                      <<StrCell(S_intro), StrCell(<<"b">>)>>>>]}
    [] name = "entries" ->
         {[columns |-> FixedCols, rows |-> <<>>],
          [columns |-> FixedCols \o <<L_description>>,
           rows |-> <<<<StrCell(S_section), NaN, NaN, NaN, NaN, NaN, NaN>>,
                      <<StrCell(S_Acme), StrCell(<<"D","e","v">>), NaN, NaN,
                        IntCell(2020), IntCell(2018), StrCell(<<"A">>)>>>>]}
    [] name \in {"computer_science_skills", "languages"} ->
         {[columns |-> <<S_name, S_level>>, rows |-> <<>>],
          [columns |-> <<S_name, S_level>>,
           rows |-> <<<<StrCell(S_Python), StrCell(<<"4",".","5">>)>>>>]}
    [] name = "contact_info" ->
         {[columns |-> <<S_id, S_icon, S_value>>, rows |-> <<>>],
          [columns |-> <<S_id, S_icon, S_value>>,
           rows |-> <<<<StrCell(S_email), StrCell(S_Icon), StrCell(<<"a","@","b">>)>>>>]}
    [] OTHER -> {[columns |-> <<>>, rows |-> <<>>],
                 [columns |-> <<S_text>>, rows |-> <<<<StrCell(<<"x">>)>>>>]}

\* the workbooks of the run: any set of sheet names, each sheet a sample
Workbooks(SheetNames) ==
  {[n \in names |-> CHOOSE d \in SampleSheets(n) : (d.rows = <<>>) = (n \in blank)] :
     names \in SUBSET SheetNames, blank \in SUBSET SheetNames}

InitMain ==
  /\ pc = "main"
  /\ xlsx_exists \in BOOLEAN
  /\ xls \in (IF xlsx_exists THEN Workbooks(SeqRange(Required) \cup {"notes"}) ELSE {<<>>})
  /\ dir_created = FALSE /\ invoked = <<>> /\ payload = NoPayload
  /\ raised = NoError /\ output_file = NoPayload
  /\ SpanIdle /\ ParserIdle

\* OUTPUT_PATH.parent.mkdir(parents=True, exist_ok=True)
Mkdir ==
  /\ pc = "main"
  /\ dir_created' = TRUE
  /\ pc' = "exists"
  /\ UNCHANGED <<spanVars, parserVars, xlsx_exists, xls, invoked, payload, raised,
                 output_file>>

\* raise FileNotFoundError(...)
RaiseNotFound ==
  /\ pc = "exists" /\ ~xlsx_exists
  /\ raised' = [type |-> "FileNotFoundError", message |-> <<"Workbook not found at ", "XLSX_PATH">>]
  /\ pc' = "error"
  /\ UNCHANGED <<spanVars, parserVars, xlsx_exists, xls, dir_created, invoked,
                 payload, output_file>>

\* xls = pd.ExcelFile(XLSX_PATH)
OpenWorkbook ==
  /\ pc = "exists" /\ xlsx_exists
  /\ pc' = "sheets"
  /\ UNCHANGED <<spanVars, parserVars, mainVars>>

\* raise ValueError(f"Missing sheets: {', '.join(missing)}")
RaiseMissingSheets ==
  /\ pc = "sheets" /\ Missing(DOMAIN xls) # <<>>
  /\ raised' = [type |-> "ValueError",
                message |-> <<"Missing sheets: ">> \o Join(Missing(DOMAIN xls), ", ")]
  /\ pc' = "error"
  /\ UNCHANGED <<spanVars, parserVars, xlsx_exists, xls, dir_created, invoked,
                 payload, output_file>>

\* the check  if missing  falls through
SheetsPresent ==
  /\ pc = "sheets" /\ Missing(DOMAIN xls) = <<>>
  /\ pc' = "call_text_blocks"
  /\ UNCHANGED <<spanVars, parserVars, mainVars>>

\* xls.parse(name) raises for a sheet the workbook does not hold
ParseCall(name, parser, next) ==
  IF name \in DOMAIN xls
  THEN /\ invoked' = Append(invoked, parser)
       /\ pc' = next
       /\ raised' = raised
  ELSE /\ invoked' = invoked
       /\ pc' = "error"
       /\ raised' = [type |-> "ValueError", message |-> <<"Worksheet not found: ", name>>]

XlsParse(name) == IF name \in DOMAIN xls THEN xls[name] ELSE NoDf

CallTextBlocks ==
  /\ pc = "call_text_blocks"
  /\ ParseCall("text_blocks", "parse_text_blocks", "call_entries")
  /\ blocks' = parse_text_blocks(XlsParse("text_blocks"))
  /\ UNCHANGED <<spanVars, df, entries, skills, langs, contacts, xlsx_exists, xls,
                 dir_created, payload, output_file>>

CallEntries ==
  /\ pc = "call_entries"
  /\ ParseCall("entries", "parse_entries", "call_skills")
  /\ entries' = parse_entries(XlsParse("entries"))
  /\ UNCHANGED <<spanVars, df, blocks, skills, langs, contacts, xlsx_exists, xls,
                 dir_created, payload, output_file>>

CallSkills ==
  /\ pc = "call_skills"
  /\ ParseCall("computer_science_skills", "parse_skills", "call_languages")
  /\ skills' = parse_skills(XlsParse("computer_science_skills"))
  /\ UNCHANGED <<spanVars, df, blocks, entries, langs, contacts, xlsx_exists, xls,
                 dir_created, payload, output_file>>

CallLanguages ==
  /\ pc = "call_languages"
  /\ ParseCall("languages", "parse_languages", "call_contact")
  /\ langs' = parse_languages(XlsParse("languages"))
  /\ UNCHANGED <<spanVars, df, blocks, entries, skills, contacts, xlsx_exists, xls,
                 dir_created, payload, output_file>>

CallContact ==
  /\ pc = "call_contact"
  /\ ParseCall("contact_info", "parse_contact", "return")
  /\ contacts' = parse_contact(XlsParse("contact_info"))
  /\ UNCHANGED <<spanVars, df, blocks, entries, skills, langs, xlsx_exists, xls,
                 dir_created, payload, output_file>>

\* the dict  data  is complete and build_payload returns it
ReturnPayload ==
  /\ pc = "return"
  /\ payload' = [built |-> TRUE,
                 text_blocks |-> blocks,
                 entries |-> entries,
                 skills |-> skills,
                 languages |-> langs,
                 contact_info |-> contacts,
                 generated_at |-> <<"utcnow().isoformat()", "Z">>,
                 workbook |-> "XLSX_PATH.name"]
  /\ pc' = "write"
  /\ UNCHANGED <<spanVars, parserVars, xlsx_exists, xls, dir_created, invoked,
                 raised, output_file>>

\* OUTPUT_PATH.write_text(json.dumps(payload, ...)) and the final print
WriteOutput ==
  /\ pc = "write"
  /\ output_file' = payload
  /\ pc' = "wrote"
  /\ UNCHANGED <<spanVars, parserVars, xlsx_exists, xls, dir_created, invoked,
                 payload, raised>>

NextMain ==
  \/ Mkdir \/ RaiseNotFound \/ OpenWorkbook \/ RaiseMissingSheets \/ SheetsPresent
  \/ CallTextBlocks \/ CallEntries \/ CallSkills \/ CallLanguages \/ CallContact
  \/ ReturnPayload \/ WriteOutput
SpecMain == InitMain /\ [][NextMain]_vars

AbsentRequired == {n \in SeqRange(Required) : n \notin DOMAIN xls}
BeforeChecks == {"main", "exists", "sheets"}

\* C5: the output file is written only after build_payload returned a
\* complete Payload; if the workbook is absent or a required sheet is
\* missing, the run never gets past the checks: it ends with an error, no
\* write to the output path and no parser invoked.
C5_WriteOnlyAfterFullPayload ==
  /\ output_file # NoPayload =>
       /\ payload.built /\ output_file = payload /\ raised = NoError
       /\ invoked = <<"parse_text_blocks", "parse_entries", "parse_skills",
                      "parse_languages", "parse_contact">>
  /\ raised # NoError => (pc = "error" /\ output_file = NoPayload /\ invoked = <<>>)
  /\ (~xlsx_exists \/ AbsentRequired # {}) =>
       /\ pc \in BeforeChecks \cup {"error"}
       /\ output_file = NoPayload /\ invoked = <<>>

\* a run on a workbook lacking a required sheet has ended in the error
C5_Witness ==
  /\ pc = "error" /\ xlsx_exists /\ AbsentRequired # {}
  /\ dir_created /\ output_file = NoPayload /\ invoked = <<>>

\* the required sheets an error message names
NamedIn(message) == {n \in SeqRange(Required) : InSeq(n, message)}

\* C6: with the workbook present, build_payload fails with the missing-sheets
\* error if and only if some required sheet is absent, and the one error
\* names exactly the absent required sheets.
C6_MissingSheetsNamesAll ==
  xlsx_exists =>
    /\ pc = "error" =>
         /\ raised.type = "ValueError" /\ raised.message[1] = "Missing sheets: "
         /\ AbsentRequired # {}
         /\ NamedIn(raised.message) = AbsentRequired
    /\ pc \notin BeforeChecks \cup {"error"} => (AbsentRequired = {} /\ raised = NoError)
    /\ AbsentRequired # {} => pc \in BeforeChecks \cup {"error"}

\* a run on a workbook lacking two required sheets raised an error naming both
C6_Witness ==
  /\ pc = "error" /\ xlsx_exists
  /\ Cardinality(AbsentRequired) = 2
  /\ "notes" \in DOMAIN xls
  /\ NamedIn(raised.message) = AbsentRequired

=============================================================================
